---- MODULE Spec2Model ----
(***************************************************************************)
(* Ray tracing through a two-axis galvanometer scanner.                    *)
(*                                                                         *)
(*   Ray.py            Ray (position, direction) and its primitives,       *)
(*                     rotate_vector_around_axis                           *)
(*   MutiAxisParam.py  MultiAxisGalvanometer: reflect, scan, refract,      *)
(*                     trace                                               *)
(*   Test_Mechnical.py test(num): the N x N sweep and the result table     *)
(*                                                                         *)
(* Numbers.  The program computes in float64.  The model computes in exact *)
(* arithmetic over the values its inputs can produce:                      *)
(*   - a scalar or a coordinate of a point is a rational  [n, d];          *)
(*   - a direction, normal or axis is a vector  v / (d * sqrt(q))  with v  *)
(*     an integer triple, d >= 1 and q >= 1 squarefree, so that            *)
(*     x / norm(x) is exact for every integer x;                           *)
(*   - a vector whose computation divided 0 by 0 is NaN (nan = TRUE): a    *)
(*     numpy division by a zero norm yields NaN and a RuntimeWarning, it   *)
(*     raises nothing.                                                     *)
(* np.arccos is transcendental: Refraction approximates the incidence      *)
(* angle (AcosMilli) and rounds the refracted direction to RefrDigits      *)
(* significant digits before the final, exact, normalisation.  float64     *)
(* rounding is modelled only where it decides what refract leaves at the   *)
(* lens (fpu, Rounded).                                                    *)
(***************************************************************************)
EXTENDS Integers, Sequences, FiniteSets, TLC

(***************************************************************************)
(* State                                                                   *)
(*   rays   the Ray objects, by identity                                   *)
(*   mags   the MultiAxisGalvanometer objects, by identity; .ray names the *)
(*          Ray a system is bound to                                       *)
(*   act    per system, the running call of trace: the statement about to  *)
(*          run (pc), its arguments, the primitive calls made so far (log),*)
(*          the value returned, the Ray as it was at the call (start), and *)
(*          the call that returned before it, if any (prev)                *)
(*   left   per system, the calls of trace still to be made                *)
(*   call   the last primitive called directly on the Ray "rayA": its name,*)
(*          arguments, the Ray before it, the value returned               *)
(*   hist   how many primitives were called directly, whether any was      *)
(*          given a zero-length vector, the call before the last (prev),   *)
(*          and the caller's view of the array it passed to __init__ as    *)
(*          position: its value then (ctor) and now (given), and whether   *)
(*          self.position is that very array (shared)                      *)
(*   drv    the batch driver test(num): position, loop indices, the list   *)
(*          of returned points, the table written                          *)
(*   fpu    how the doubles of the build round where the arithmetic of the *)
(*          model has an exact zero (see Rounded); fixed for a run         *)
(***************************************************************************)
VARIABLES rays, mags, act, left, call, hist, drv, fpu

vars == << rays, mags, act, left, call, hist, drv, fpu >>

(***************************************************************************)
(* Integer helpers                                                         *)
(***************************************************************************)
Abs(x) == IF x < 0 THEN -x ELSE x

Sgn(x) == IF x < 0 THEN -1 ELSE IF x = 0 THEN 0 ELSE 1

\* Quotient rounded toward zero (d > 0).
DivT(n, d) == IF n >= 0 THEN n \div d ELSE -((-n) \div d)

RECURSIVE GCD(_, _)
GCD(a, b) == IF b = 0 THEN Abs(a) ELSE GCD(b, a % Abs(b))

GCD3(v) == GCD(GCD(v[1], v[2]), v[3])

\* Integer square root: the largest k with k*k <= n, by bisection on lo..hi.
RECURSIVE ISqrtIn(_, _, _)
ISqrtIn(n, lo, hi) ==
    IF lo >= hi THEN lo
    ELSE LET mid == (lo + hi + 1) \div 2
         IN  IF mid <= n \div mid THEN ISqrtIn(n, mid, hi) ELSE ISqrtIn(n, lo, mid - 1)

ISqrt(n) == IF n <= 0 THEN 0 ELSE ISqrtIn(n, 1, IF n < 46340 THEN n ELSE 46340)

\* The largest g with g*g dividing n (n >= 1).
SquarePart(n) ==
    LET Below(s) ==
            IF s * s = n THEN s
            ELSE CHOOSE g \in 1..s :
                    /\ n % (g * g) = 0
                    /\ \A h \in (g + 1)..s : n % (h * h) # 0
    IN  Below(ISqrt(n))

(***************************************************************************)
(* Rationals [n, d], d >= 1, in lowest terms                               *)
(***************************************************************************)
Q(n, d) ==
    LET Over(g, s) == [n |-> s * (n \div g), d |-> s * (d \div g)]
    IN  Over(GCD(n, d), IF d < 0 THEN -1 ELSE 1)

QI(n) == [n |-> n, d |-> 1]

QAdd(a, b) ==
    LET Over(g) == Q(a.n * (b.d \div g) + b.n * (a.d \div g), (a.d \div g) * b.d)
    IN  Over(GCD(a.d, b.d))

QNeg(a) == [n |-> -a.n, d |-> a.d]

QSub(a, b) == QAdd(a, QNeg(b))

QMul(a, b) ==
    LET Over(h1, h2) == Q((a.n \div h1) * (b.n \div h2), (a.d \div h2) * (b.d \div h1))
    IN  Over(GCD(a.n, b.d), GCD(b.n, a.d))

\* a / b for b # 0
QDiv(a, b) == QMul(a, Q(b.d, b.n))

QSgn(a) == Sgn(a.n)

(***************************************************************************)
(* Integer triples                                                         *)
(***************************************************************************)
Dot3(a, b) == a[1] * b[1] + a[2] * b[2] + a[3] * b[3]

Cross3(a, b) ==
    << a[2] * b[3] - a[3] * b[2],
       a[3] * b[1] - a[1] * b[3],
       a[1] * b[2] - a[2] * b[1] >>

Scale3(k, a) == << k * a[1], k * a[2], k * a[3] >>

Add3(a, b) == << a[1] + b[1], a[2] + b[2], a[3] + b[3] >>

Sub3(a, b) == << a[1] - b[1], a[2] - b[2], a[3] - b[3] >>

Zero3 == << 0, 0, 0 >>

(***************************************************************************)
(* Points: a triple of rationals, or NaN                                   *)
(***************************************************************************)
Pt(x, y, z) == [nan |-> FALSE, c |-> << x, y, z >>]

PtI(v) == Pt(QI(v[1]), QI(v[2]), QI(v[3]))

NaNPt == [nan |-> TRUE, c |-> << QI(0), QI(0), QI(0) >>]

PtSub(a, b) == << QSub(a.c[1], b.c[1]), QSub(a.c[2], b.c[2]), QSub(a.c[3], b.c[3]) >>

\* (rational triple) . (integer triple)
QDot(r, w) == QAdd(QAdd(QMul(r[1], QI(w[1])), QMul(r[2], QI(w[2]))), QMul(r[3], QI(w[3])))

\* p + s * u  for a point p, a rational s and an integer triple u
PtAddScaled(p, s, u) ==
    Pt(QAdd(p.c[1], QMul(s, QI(u[1]))),
       QAdd(p.c[2], QMul(s, QI(u[2]))),
       QAdd(p.c[3], QMul(s, QI(u[3]))))

(***************************************************************************)
(* Vectors  v / (d * sqrt(q)),  or NaN                                     *)
(***************************************************************************)
NaNVec == [nan |-> TRUE, v |-> Zero3, d |-> 1, q |-> 1]

\* The canonical form of v / (d * sqrt(q)): q squarefree, gcd(v, d) = 1.
Canon(v, d, q) ==
    IF v = Zero3 THEN [nan |-> FALSE, v |-> Zero3, d |-> 1, q |-> 1]
    ELSE LET Over(s, g) ==
                 [nan |-> FALSE,
                  v |-> << v[1] \div g, v[2] \div g, v[3] \div g >>,
                  d |-> (d * s) \div g,
                  q |-> q \div (s * s)]
             Root(s) == Over(s, GCD(GCD3(v), d * s))
         IN  Root(SquarePart(q))

\* np.array(x, dtype=np.float64) of an integer list
Vec(x) == Canon(x, 1, 1)

\* x / np.linalg.norm(x): the norm of v/(d sqrt q) is |v|/(d sqrt q), so the
\* quotient is v / sqrt(v.v); a zero vector gives 0/0 = NaN in every component.
Normalize(x) ==
    IF x.nan \/ x.v = Zero3 THEN NaNVec
    ELSE Canon(x.v, 1, Dot3(x.v, x.v))

\* |x| = 1, exactly
IsUnit(x) == ~x.nan /\ Dot3(x.v, x.v) = x.d * x.d * x.q

(***************************************************************************)
(* Angles.  An angle in degrees is given in thousandths of a degree.       *)
(* CosSin(a) is (np.cos(a*pi/180), np.sin(a*pi/180)) as c/sqrt(H),         *)
(* s/sqrt(H) with H = c*c + s*s, tabulated for the angles the model uses:  *)
(* exact for the multiples of 90 and for atan(3/4), atan(1/7), atan(1/3);  *)
(* 11 degrees, the end of the sweep, is tabulated by tan = 1/5 (11.31      *)
(* degrees) and 3.667 degrees, a third of the way, by tan = 1/14 (4.09     *)
(* degrees), the closest slopes the integer width leaves room for.         *)
(***************************************************************************)
CosSinPos(a) ==
    CASE a = 0      -> [c |-> 1,  s |-> 0, H |-> 1]
      [] a = 90000  -> [c |-> 0,  s |-> 1, H |-> 1]
      [] a = 180000 -> [c |-> -1, s |-> 0, H |-> 1]
      [] a = 36870  -> [c |-> 4,  s |-> 3, H |-> 25]
      [] a = 18435  -> [c |-> 3,  s |-> 1, H |-> 10]
      [] a = 8130   -> [c |-> 7,  s |-> 1, H |-> 50]
      [] a = 11000  -> [c |-> 5,  s |-> 1, H |-> 26]
      [] a = 3666   -> [c |-> 14, s |-> 1, H |-> 197]

CosSin(a) ==
    IF a >= 0 THEN CosSinPos(a)
    ELSE LET Mirror(t) == [c |-> t.c, s |-> -t.s, H |-> t.H] IN Mirror(CosSinPos(-a))

(***************************************************************************)
(* Ray.py: rotate_vector_around_axis(vec, axis, theta)                     *)
(*   vec  = vec / norm(vec);  axis = axis / norm(axis)                     *)
(*   vec cos + (axis x vec) sin + axis (axis . vec) (1 - cos)              *)
(* With vec = v/sqrt(V), axis = a/sqrt(A) (V = v.v, A = a.a) and           *)
(* cos = c/sqrt(H), sin = s/sqrt(H), the result times sqrt(V) sqrt(H) A is *)
(*   A c v  +  sqrt(A) s (a x v)  +  (sqrt(H) - c) (a.v) a.                *)
(* The model carries one radical per vector: the axis must have a rational *)
(* norm unless the sine term vanishes, and H must be a square unless       *)
(* a.v = 0.  The input sets respect this; anything else is no value.       *)
(***************************************************************************)
Unrepresentable == CHOOSE x \in {} : TRUE

rotate_vector_around_axis(vec, axis, trig) ==
    LET Sum(v, a, V, A, rH, sinTerm, axisTerm) ==
            IF rH * rH = trig.H
            THEN Canon(Add3(Add3(Scale3(A * trig.c, v), sinTerm), axisTerm), A * rH, V)
            ELSE Canon(Add3(Add3(Scale3(A * trig.c, v), sinTerm), axisTerm), A, V * trig.H)
        Terms(v, a, V, A, av, x, rA, rH) ==
            Sum(v, a, V, A, rH,
                IF trig.s = 0 \/ x = Zero3 THEN Zero3
                ELSE IF rA * rA = A THEN Scale3(rA * trig.s, x)
                ELSE Unrepresentable,
                IF av = 0 THEN Zero3
                ELSE IF rH * rH = trig.H THEN Scale3((rH - trig.c) * av, a)
                ELSE Unrepresentable)
        Rodrigues(v, a) ==
            Terms(v, a, Dot3(v, v), Dot3(a, a), Dot3(a, v), Cross3(a, v),
                  ISqrt(Dot3(a, a)), ISqrt(trig.H))
        Unit(vn, an) ==
            IF vn.nan \/ an.nan THEN NaNVec ELSE Rodrigues(vn.v, an.v)
    IN  Unit(Normalize(vec), Normalize(axis))

(***************************************************************************)
(* Ray.py: class Ray                                                       *)
(***************************************************************************)
\* Ray.__init__(position, direction)
RayNew(position, direction) ==
    [position |-> position, direction |-> Normalize(direction)]

\* Whether self.position is the very array the caller passed to __init__,
\* after the call op that returned ret.  A faulty version that keeps the
\* caller's array at construction (np.asarray in place of np.array); C12
\* tells it from Shares.
Shares_NoCopy(op, ret, shared) ==
    CASE op = "__init__" -> TRUE
      [] op = "interaction" -> shared /\ ret.kind # "point"
      [] OTHER -> shared

\* np.array(position, dtype=np.float64) makes a new array at construction;
\* interaction binds self.position to a new array when it returns a point;
\* no other method binds self.position.
Shares(op, ret, shared) ==
    CASE op = "__init__" -> FALSE
      [] op = "interaction" -> shared /\ ret.kind # "point"
      [] OTHER -> shared

\* The caller's position array after the call op left the Ray as r2: the one
\* write in place of Ray.py is the += of move, on self.position
Written(op, shared, given, r2) == IF shared /\ op = "move" THEN r2.position ELSE given

\* The parameter t of a ray is carried as the rational r with
\* t = r * d * sqrt(q), d and q those of the direction, so that
\* t * direction = r * v.  The sign of t is the sign of r.
point_at_parameter(r, t) ==
    IF r.position.nan \/ r.direction.nan THEN NaNPt
    ELSE PtAddScaled(r.position, t, r.direction.v)

\* Ray.move(L): position += L * direction.  L is a rational; the step is
\* rational when the direction is (q = 1), which MoveDefined states.
MoveDefined(r) == r.direction.nan \/ r.direction.q = 1

move(r, L) ==
    [r EXCEPT !.position =
        IF r.direction.nan THEN NaNPt
        ELSE point_at_parameter(r, QMul(L, Q(1, r.direction.d)))]

\* direction - 2 (direction . n) n  for a unit n = w / sqrt(w.w)
Reflected(dir, n) ==
    IF dir.nan \/ n.nan THEN NaNVec
    ELSE LET Mirrored(W2, a) ==
                 Canon(Sub3(Scale3(W2, dir.v), Scale3(2 * a, n.v)), dir.d * W2, dir.q)
         IN  Mirrored(Dot3(n.v, n.v), Dot3(dir.v, n.v))

\* A faulty reflection that does not normalise the normal; C11 tells it from
\* reflection.
reflection_Unnormalised(r, n) ==
    [r EXCEPT !.direction =
        IF r.direction.nan \/ n.nan THEN NaNVec
        ELSE Canon(Sub3(r.direction.v, Scale3(2 * Dot3(r.direction.v, n.v), n.v)),
                   r.direction.d, r.direction.q)]

\* Ray.reflection(n)
reflection(r, n) == [r EXCEPT !.direction = Reflected(r.direction, Normalize(n))]

\* The value None and a returned point
None == [kind |-> "None", p |-> NaNPt]

Some(p) == [kind |-> "point", p |-> p]

\* A call that returns nothing of interest (reflection, refraction, move, scan)
Void == [kind |-> "void", p |-> NaNPt]

\* |np.dot(direction, n)| < 1e-10.  The dot product is a / (|u| |w|) with
\* a = u.w an integer and |u|^2 |w|^2 below 2^31, so it is below 1e-10 in
\* absolute value exactly when a = 0.  A NaN operand compares false.
IsParallel(dir, n) == ~dir.nan /\ ~n.nan /\ Dot3(dir.v, n.v) = 0

\* A faulty interaction that also answers None at t = 0; C3 tells it from
\* interaction.
interaction_NoneAtOrigin(r, nIn, P) ==
    LET Commit(intersection_point) ==
            [ray |-> [r EXCEPT !.position = intersection_point],
             ret |-> Some(intersection_point)]
        At(t) ==
            IF QSgn(t) <= 0 THEN [ray |-> r, ret |-> None]
            ELSE Commit(point_at_parameter(r, t))
        On(n) ==
            IF IsParallel(r.direction, n) THEN [ray |-> r, ret |-> None]
            ELSE IF r.direction.nan \/ n.nan \/ r.position.nan
            THEN Commit(NaNPt)
            ELSE At(QDiv(QDot(PtSub(P, r.position), n.v), QI(Dot3(r.direction.v, n.v))))
    IN  On(Normalize(nIn))

\* A faulty interaction that returns the intersection point and leaves the
\* position where it was; C4 tells it from interaction.
interaction_NoCommit(r, nIn, P) ==
    LET At(t) ==
            IF QSgn(t) < 0 THEN [ray |-> r, ret |-> None]
            ELSE [ray |-> r, ret |-> Some(point_at_parameter(r, t))]
        On(n) ==
            IF IsParallel(r.direction, n) THEN [ray |-> r, ret |-> None]
            ELSE IF r.direction.nan \/ n.nan \/ r.position.nan
            THEN [ray |-> r, ret |-> Some(NaNPt)]
            ELSE At(QDiv(QDot(PtSub(P, r.position), n.v), QI(Dot3(r.direction.v, n.v))))
    IN  On(Normalize(nIn))

\* Ray.interaction(n, P): the ray after the call and the value returned
interaction(r, nIn, P) ==
    LET Commit(intersection_point) ==
            [ray |-> [r EXCEPT !.position = intersection_point],
             ret |-> Some(intersection_point)]
        At(t) ==
            IF QSgn(t) < 0 THEN [ray |-> r, ret |-> None]
            ELSE Commit(point_at_parameter(r, t))
        On(n) ==
            IF IsParallel(r.direction, n) THEN [ray |-> r, ret |-> None]
            ELSE IF r.direction.nan \/ n.nan \/ r.position.nan
            THEN Commit(NaNPt)
            ELSE At(QDiv(QDot(PtSub(P, r.position), n.v), QI(Dot3(r.direction.v, n.v))))
    IN  On(Normalize(nIn))

(***************************************************************************)
(* Ray.refraction(k, n)                                                    *)
(*   cos_theta = -dot(direction, n)                                        *)
(*   acos_theta = 0 if |cos_theta| >= 1 else arccos(cos_theta)             *)
(*   vertical  = -n / sqrt(1 + k^2 acos^2)                                 *)
(*   parallel  = k acos / sqrt(1 + k^2 acos^2) * pv / norm(pv),            *)
(*               pv = direction + cos_theta * n                            *)
(*   direction = normalize(vertical + parallel)                            *)
(* With direction = u/|u| and n = w/|w|:  a = u.w,  W2 = w.w,  U2 = u.u,   *)
(* pv is parallel to P0 = W2 u - a w, |P0|^2 = W2 D with D = U2 W2 - a^2,  *)
(* and vertical + parallel is parallel to  -sqrt(D) w + k acos P0.         *)
(***************************************************************************)
RefrDigits == 2

RECURSIVE Pow10(_)
Pow10(k) == IF k = 0 THEN 1 ELSE 10 * Pow10(k - 1)

\* The fixed-point scale F of sqrt(D): the largest of 100, 10, 1 keeping
\* D * F * F inside the integer width.
RootScale(D) == IF D < 200000 THEN 100 ELSE IF D < 20000000 THEN 10 ELSE 1

\* 1000 * arctan(m / 250) for 0 <= m <= 250, by x (15 + 4 x^2) / (15 + 9 x^2)
AtanMilli(m) == DivT(4 * m * (937500 + 4 * m * m), 937500 + 9 * m * m)

\* 1000 * np.arccos(c / sqrt(c*c + D)), D > 0: the angle whose cosine has the
\* sign of c and whose tangent is sqrt(D) / c, to about three digits.
AcosMilli(c, D) ==
    LET Angle(sD, ac) ==
            IF ac >= sD
            THEN IF c > 0 THEN AtanMilli(DivT(sD * 250, ac))
                 ELSE 3142 - AtanMilli(DivT(sD * 250, ac))
            ELSE IF c >= 0 THEN 1571 - AtanMilli(DivT(ac * 250, sD))
                 ELSE 1571 + AtanMilli(DivT(ac * 250, sD))
    IN  Angle(ISqrt(D * RootScale(D) * RootScale(D)), Abs(c) * RootScale(D))

\* An integer triple cut to RefrDigits significant digits
RoundVec(v) ==
    LET Cut(s) == << DivT(v[1], s), DivT(v[2], s), DivT(v[3], s) >>
        Largest(m) == Cut(m \div Pow10(RefrDigits) + 1)
    IN  Largest(IF Abs(v[1]) >= Abs(v[2]) /\ Abs(v[1]) >= Abs(v[3]) THEN Abs(v[1])
                ELSE IF Abs(v[2]) >= Abs(v[3]) THEN Abs(v[2]) ELSE Abs(v[3]))

Refracted(dir, k, n) ==
    IF dir.nan \/ n.nan THEN NaNVec
    ELSE LET Bend(w, a, D, P0) ==
                 IF P0 = Zero3
                 THEN NaNVec                             \* pv / norm(pv) = 0 / 0
                 ELSE IF D <= 0
                 THEN Normalize(Vec(Scale3(-1, w)))      \* acos_theta = 0
                 ELSE Normalize(Vec(RoundVec(
                          Add3(Scale3(-1000 * ISqrt(D * RootScale(D) * RootScale(D)), w),
                               Scale3(k * AcosMilli(-a, D) * RootScale(D), P0)))))
             Parts(u, w, a, W2, U2) ==
                 Bend(w, a, U2 * W2 - a * a, Sub3(Scale3(W2, u), Scale3(a, w)))
         IN  Parts(dir.v, n.v, Dot3(dir.v, n.v), Dot3(n.v, n.v), Dot3(dir.v, dir.v))

refraction(r, k, n) == [r EXCEPT !.direction = Refracted(r.direction, k, Normalize(n))]

(***************************************************************************)
(* Ray.scan(Px1, Px2, nx, ny, nx_rotation, ny_rotation, x_angle, y_angle)  *)
(***************************************************************************)
\* A faulty scan that stops at the first intersection that fails; C10 tells it
\* from scan.
scan_StopOnMiss(r, Px1, Px2, nxIn, nyIn, nxRotIn, nyRotIn, x_angle, y_angle) ==
    LET Out(nx_after, ny_after, i1, r1, i2, r2) ==
            [ray |-> r2, hitA |-> i1.ret, midA |-> i1.ray, afterA |-> r1,
             hitB |-> i2.ret, midB |-> i2.ray,
             nx_after |-> nx_after, ny_after |-> ny_after]
        SecondHit(nx_after, ny_after, i1, r1, i2) ==
            Out(nx_after, ny_after, i1, r1, i2,
                IF i2.ret = None THEN i2.ray ELSE reflection(i2.ray, ny_after))
        SecondMirror(nx_after, ny_after, i1, r1) ==
            SecondHit(nx_after, ny_after, i1, r1,
                      IF i1.ret = None THEN [ray |-> r1, ret |-> None]
                      ELSE interaction(r1, ny_after, Px2))
        FirstHit(nx_after, ny_after, i1) ==
            SecondMirror(nx_after, ny_after, i1,
                         IF i1.ret = None THEN i1.ray ELSE reflection(i1.ray, nx_after))
        Rotated(nx_after, ny_after) ==
            FirstHit(nx_after, ny_after, interaction(r, nx_after, Px1))
    IN  Rotated(rotate_vector_around_axis(Normalize(nxIn), Normalize(nxRotIn), CosSin(x_angle)),
                rotate_vector_around_axis(Normalize(nyIn), Normalize(nyRotIn), CosSin(y_angle)))

scan(r, Px1, Px2, nxIn, nyIn, nxRotIn, nyRotIn, x_angle, y_angle) ==
    LET Out(nx_after, ny_after, i1, r1, i2, r2) ==
            [ray |-> r2, hitA |-> i1.ret, midA |-> i1.ray, afterA |-> r1,
             hitB |-> i2.ret, midB |-> i2.ray,
             nx_after |-> nx_after, ny_after |-> ny_after]
        SecondHit(nx_after, ny_after, i1, r1, i2) ==
            Out(nx_after, ny_after, i1, r1, i2, reflection(i2.ray, ny_after))
        SecondMirror(nx_after, ny_after, i1, r1) ==
            SecondHit(nx_after, ny_after, i1, r1, interaction(r1, ny_after, Px2))
        FirstHit(nx_after, ny_after, i1) ==
            SecondMirror(nx_after, ny_after, i1, reflection(i1.ray, nx_after))
        Rotated(nx_after, ny_after) ==
            FirstHit(nx_after, ny_after, interaction(r, nx_after, Px1))
    IN  Rotated(rotate_vector_around_axis(Normalize(nxIn), Normalize(nxRotIn), CosSin(x_angle)),
                rotate_vector_around_axis(Normalize(nyIn), Normalize(nyRotIn), CosSin(y_angle)))

(***************************************************************************)
(* MutiAxisParam.py: class MultiAxisGalvanometer                           *)
(***************************************************************************)
\* MultiAxisGalvanometer.__init__(focus_distance, galvo_gap)
MagNew(focus_distance, galvo_gap) ==
    [focus_distance |-> focus_distance, galvo_gap |-> galvo_gap, ray |-> "none"]

\* A faulty set_ray that binds every system to one and the same Ray; C8
\* tells it from set_ray.
set_ray_Shared(mg, rayId) == [mg EXCEPT !.ray = "rayA"]

\* MultiAxisGalvanometer.set_ray(ray): the system keeps a reference to the Ray
set_ray(mg, rayId) == [mg EXCEPT !.ray = rayId]

\* One primitive call of a trace, as the log keeps it: the operation, the
\* normal, point and k it was given, what it returned, the Ray after it.
Entry(op, n, P, k, ret, after) ==
    [op |-> op, n |-> n, P |-> P, k |-> k, ret |-> ret, after |-> after]

\* MultiAxisGalvanometer.reflect(normal, point)
mag_reflect(r, normal, point) ==
    LET Reflect(i, r2) ==
            [ray |-> r2,
             log |-> << Entry("interaction", normal, point, 0, i.ret, i.ray),
                        Entry("reflection", normal, NaNPt, 0, Void, r2) >>]
        Hit(i) == Reflect(i, reflection(i.ray, normal))
    IN  Hit(interaction(r, normal, point))

\* MultiAxisGalvanometer.scan(...): self.ray.scan(...)
mag_scan(r, Px1, Px2, nx, ny, nx_rotation, ny_rotation, x_angle, y_angle) ==
    LET Scanned(s) ==
            [ray |-> s.ray,
             log |-> << Entry("interaction", s.nx_after, Px1, 0, s.hitA, s.midA),
                        Entry("reflection", s.nx_after, NaNPt, 0, Void, s.afterA),
                        Entry("interaction", s.ny_after, Px2, 0, s.hitB, s.midB),
                        Entry("reflection", s.ny_after, NaNPt, 0, Void, s.ray) >>]
    IN  Scanned(scan(r, Px1, Px2, nx, ny, nx_rotation, ny_rotation, x_angle, y_angle))

\* refract(normal, point, k=-1)
DefaultK == -1

\* A faulty refract that bends the Ray where it is, without the intersection;
\* C2 tells it from refract.
mag_refract_NoIntersection(r, normal, point, k) ==
    LET Refract(r2) ==
            [ray |-> r2, log |-> << Entry("refraction", normal, NaNPt, k, Void, r2) >>]
    IN  Refract(refraction(r, k, normal))

\* MultiAxisGalvanometer.refract(normal, point, k)
mag_refract(r, normal, point, k) ==
    LET Refract(i, r2) ==
            [ray |-> r2,
             log |-> << Entry("interaction", normal, point, 0, i.ret, i.ray),
                        Entry("refraction", normal, NaNPt, k, Void, r2) >>]
        Hit(i) == Refract(i, refraction(i.ray, k, normal))
    IN  Hit(interaction(r, normal, point))

(***************************************************************************)
(* MultiAxisGalvanometer.trace(X_angle, Y_angle): the optical prescription *)
(***************************************************************************)
n1 == Vec(<< 0, 1, -1 >>)

P1 == PtI(<< 0, 20, 0 >>)

n2 == Vec(<< 0, 1, -1 >>)

P2 == PtI(<< 0, 20, 200 >>)

Px1 == PtI(<< 0, 180, 200 >>)

Px2(mg) == Pt(mg.galvo_gap, QI(180), QI(200))

nx == Vec(<< -1, 1, 0 >>)

ny == Vec(<< 1, 0, 1 >>)

rx == Vec(<< 0, 0, 1 >>)

ry == Vec(<< 0, 1, 0 >>)

n5 == Vec(<< 0, 0, 1 >>)

P5(mg) == Pt(mg.galvo_gap, QI(180), QI(170))

nFocal == Vec(<< 0, 0, 1 >>)

PFocal(mg) == Pt(mg.galvo_gap, QI(180), QSub(QI(170), mg.focus_distance))

\* How a build may round.  The model computes in exact arithmetic; the
\* doubles of the program differ from it by rounding errors of some 1e-16,
\* which decide an outcome where the exact value is a zero that the code
\* divides by: the parallel component of a direction that meets the lens
\* along its normal (Ray.py line 174).  The normals (0,1,-1)/sqrt(2),
\* (-1,1,0)/sqrt(2), (1,0,1)/sqrt(2) of the mirrors are not doubles, so the
\* direction that reaches the lens carries their rounding errors: the
\* component is either exactly zero ("exact": 0/0, a NaN direction) or a
\* residue ("residue").  The other exact zero a trace can meet, t = 0 at an
\* intersection, is kept as the exact arithmetic has it (t = 0 is not
\* negative); a build may round such a t to either side.
Roundings == { "exact", "residue" }

\* What refract leaves (s) as the build rounds it.  With a residue and the
\* direction against the normal, cos_theta rounds to 1 or just below it,
\* acos_theta is 0 or some 1e-8, term1 likewise, and the direction leaves as
\* -n to the digits the model keeps.
Rounded(s, normal) ==
    LET Out(d) ==
            [ray |-> [s.ray EXCEPT !.direction = d],
             log |-> << s.log[1], [s.log[2] EXCEPT !.after.direction = d] >>]
        arrived == s.log[1].after.direction
    IN  IF /\ fpu = "residue"
           /\ Len(s.log) = 2
           /\ s.ray.direction.nan
           /\ ~arrived.nan
           /\ ~Normalize(normal).nan
           /\ Cross3(arrived.v, normal.v) = Zero3
           /\ Dot3(arrived.v, normal.v) < 0
        THEN Out(Normalize(Vec(Scale3(-1, normal.v))))
        ELSE s

\* The statements of trace, in program order: the position pc names the
\* statement about to run.
TraceStep(pc, r, mg, X, Y) ==
    LET Then(s, next) == [ray |-> s.ray, log |-> s.log, pc |-> next, ret |-> Void]
        Return(intersection_point) ==
            [ray |-> intersection_point.ray,
             log |-> << Entry("interaction", nFocal, PFocal(mg), 0,
                              intersection_point.ret, intersection_point.ray) >>,
             pc |-> "returned", ret |-> intersection_point.ret]
    IN  CASE pc = "mirror1" -> Then(mag_reflect(r, n1, P1), "mirror2")
          [] pc = "mirror2" -> Then(mag_reflect(r, n2, P2), "scan")
          [] pc = "scan"    -> Then(mag_scan(r, Px1, Px2(mg), nx, ny, rx, ry, X, Y), "lens")
          [] pc = "lens"    -> Then(Rounded(mag_refract(r, n5, P5(mg), DefaultK), n5), "focal")
          [] pc = "focal"   -> Return(interaction(r, nFocal, PFocal(mg)))

TracePcs == << "mirror1", "mirror2", "scan", "lens", "focal" >>

\* trace run to its return, from the Ray r: the value it returns and the Ray
\* it leaves
RECURSIVE TraceFrom(_, _, _, _, _)
TraceFrom(pc, r, mg, X, Y) ==
    LET After(s) ==
            IF s.pc = "returned" THEN [ray |-> s.ray, ret |-> s.ret]
            ELSE TraceFrom(s.pc, s.ray, mg, X, Y)
    IN  After(TraceStep(pc, r, mg, X, Y))

trace(r, mg, X, Y) == TraceFrom("mirror1", r, mg, X, Y)

(***************************************************************************)
(* Test_Mechnical.py: test(num)                                            *)
(***************************************************************************)
initial_position == PtI(<< 0, 0, 0 >>)

initial_direction == Vec(<< 0, 1, 0 >>)

focus_distance == QI(165)

galvo_gap == Q(261, 20)                        \* 13.05

\* np.linspace(-11, 11, num)[i], in thousandths of a degree
LinSpace(num, i) == IF num = 1 THEN -11000 ELSE DivT(-11000 * (num - 1) + 22000 * i, num - 1)

\* P1 = [galvo_gap, 180, 5], the reference point subtracted from every point
RefPoint == Pt(galvo_gap, QI(180), QI(5))

\* A faulty subtraction that writes the point as traced; C9 tells it from
\* PointMinus.
PointMinus_Identity(p, A) == p

\* point - A of the list comprehension, for a point that is an array
PointMinus(p, A) ==
    IF p.nan \/ A.nan THEN NaNPt
    ELSE LET Diff(c) == Pt(c[1], c[2], c[3]) IN Diff(PtSub(p, A))

Header == << "X", "Y", "Z" >>

RayIds == { "rayA", "rayB" }

MagIds == { "magA", "magB" }

\* The Ray a sample of system m constructs for itself
RayFor(m) == IF m = "magA" THEN "rayA" ELSE "rayB"

\* A name bound to no object yet
NoRay == [position |-> NaNPt, direction |-> NaNVec]

Idle == [pc |-> "idle", X |-> 0, Y |-> 0, log |-> << >>, ret |-> Void, start |-> NoRay,
         prev |-> << >>]

NoArgs == [n |-> NaNVec, P |-> NaNPt, k |-> 0, L |-> QI(0), sc |-> << >>]

NoCall == [op |-> "none", arg |-> NoArgs, before |-> NoRay, ret |-> Void, zero |-> FALSE]

NoHist == [n |-> 0, zero |-> FALSE, prev |-> NoCall, ctor |-> NaNPt, given |-> NaNPt,
           shared |-> FALSE]

NoDrv == [pc |-> "off", num |-> 0, i |-> 0, j |-> 0, list |-> << >>,
          realresult |-> << >>, file |-> << >>]

(***************************************************************************)
(* Bounds and input sets                                                   *)
(***************************************************************************)
MaxCalls == 2

MaxTraces == 2

MaxNum == 3

MaxDenominator == 2

MaxComponent == 99

IsZero(x) == x = Zero3

RayPositions == { << 0, 0, 0 >>, << 0, 40, 0 >> }

RayDirections == { << 0, 1, 0 >>, << 0, 0, -1 >>, << 1, 1, 0 >>, << 0, 0, 0 >> }

Normals == { << 0, 0, 1 >>, << 0, 1, -1 >>, << 0, 0, 0 >> }

PlanePoints == { << 0, 20, 0 >>, << 0, 0, 0 >> }

Lengths == { QI(20), Q(-1, 2) }

Ks == { -1, 2 }

ScanArgs ==
    { [Px1 |-> << 0, 20, 0 >>, Px2 |-> << 0, 20, 200 >>, nx |-> a.n, ny |-> << 0, 1, -1 >>,
       rx |-> a.ax, ry |-> << 1, 0, 0 >>, xa |-> a.ang, ya |-> 0] :
      a \in { [n |-> << 0, 1, -1 >>, ax |-> << 2, 0, 0 >>, ang |-> 0],
              [n |-> << 0, 1, -1 >>, ax |-> << 2, 0, 0 >>, ang |-> 36870],
              [n |-> << 0, -1, 1 >>, ax |-> << 2, 0, 0 >>, ang |-> 90000],
              [n |-> << 0, 1, 1 >>,  ax |-> << 0, 0, 1 >>, ang |-> -36870],
              [n |-> << 0, 1, -1 >>, ax |-> << 0, 0, 0 >>, ang |-> 0] } }

TraceRays ==
    { [position |-> << 0, 0, 0 >>,  direction |-> << 0, 1, 0 >>],
      [position |-> << 0, 40, 0 >>, direction |-> << 0, 1, 0 >>],
      [position |-> << 0, 0, 0 >>,  direction |-> << 0, 1, 1 >>] }

TraceAngles == { 0, 8130, -11000 }

Focuses == { QI(165), QI(100) }

Gaps == { Q(261, 20), QI(13) }

ParRays == { [position |-> << 0, 0, 0 >>, direction |-> << 0, 1, 0 >>],
             [position |-> << 0, 40, 0 >>, direction |-> << 0, 1, 0 >>] }

ParAngles == { 8130, -11000 }

(***************************************************************************)
(* Primitives called directly on the Ray "rayA"                            *)
(***************************************************************************)
Subject == rays["rayA"]

\* A Ray small enough for one more primitive to be computed inside the
\* integer width (the coordinates of a NaN are kept as 0/1 and 0)
Small(r) ==
    /\ \A i \in 1..3 : r.position.c[i].d <= MaxDenominator
    /\ \A i \in 1..3 : Abs(r.direction.v[i]) <= MaxComponent

\* Another primitive may be called
Callable == hist.n < MaxCalls /\ Small(Subject)

Called(op, arg, r2, ret, zero) ==
    /\ rays' = [rays EXCEPT !["rayA"] = r2]
    /\ call' = [op |-> op, arg |-> arg, before |-> Subject, ret |-> ret, zero |-> zero]
    /\ hist' = [n |-> hist.n + 1, zero |-> hist.zero \/ zero, prev |-> call,
                ctor |-> hist.ctor, given |-> Written(op, hist.shared, hist.given, r2),
                shared |-> Shares(op, ret, hist.shared)]
    /\ UNCHANGED << mags, act, left, drv, fpu >>

PointAt ==
    \E t \in Lengths :
        /\ Callable
        /\ MoveDefined(Subject)
        /\ Called("point_at_parameter", [NoArgs EXCEPT !.L = t], Subject,
                  Some(point_at_parameter(Subject, QMul(t, Q(1, Subject.direction.d)))),
                  FALSE)

Move ==
    \E L \in Lengths :
        /\ Callable
        /\ MoveDefined(Subject)
        /\ Called("move", [NoArgs EXCEPT !.L = L], move(Subject, L), Void, FALSE)

Reflection ==
    \E n \in Normals :
        /\ Callable
        /\ Called("reflection", [NoArgs EXCEPT !.n = Vec(n)], reflection(Subject, Vec(n)),
                  Void, IsZero(n))

Refraction ==
    \E n \in Normals, k \in Ks :
        /\ Callable
        /\ Called("refraction", [NoArgs EXCEPT !.n = Vec(n), !.k = k],
                  refraction(Subject, k, Vec(n)), Void, IsZero(n))

Interaction ==
    \E n \in Normals, P \in PlanePoints :
        /\ Callable
        /\ LET Returned(i) ==
                   Called("interaction", [NoArgs EXCEPT !.n = Vec(n), !.P = PtI(P)],
                          i.ray, i.ret, IsZero(n))
           IN  Returned(interaction(Subject, Vec(n), PtI(P)))

Scan ==
    \E a \in ScanArgs :
        /\ Callable
        /\ Called("scan", [NoArgs EXCEPT !.sc = << a >>],
                  scan(Subject, PtI(a.Px1), PtI(a.Px2), Vec(a.nx), Vec(a.ny),
                       Vec(a.rx), Vec(a.ry), a.xa, a.ya).ray,
                  Void, IsZero(a.nx) \/ IsZero(a.ny) \/ IsZero(a.rx) \/ IsZero(a.ry))

InitRay ==
    /\ \E p \in RayPositions, d \in RayDirections :
          /\ rays = [id \in RayIds |-> IF id = "rayA" THEN RayNew(PtI(p), Vec(d)) ELSE NoRay]
          /\ call = [NoCall EXCEPT !.op = "__init__", !.arg.n = Vec(d), !.zero = IsZero(d)]
          /\ hist = [NoHist EXCEPT !.zero = IsZero(d), !.ctor = PtI(p), !.given = PtI(p),
                                   !.shared = Shares("__init__", Void, FALSE)]
    /\ mags = [m \in MagIds |-> MagNew(QI(0), QI(0))]
    /\ act = [m \in MagIds |-> Idle]
    /\ left = [m \in MagIds |-> 0]
    /\ drv = NoDrv
    /\ fpu = "exact"

NextRay == PointAt \/ Move \/ Reflection \/ Refraction \/ Interaction \/ Scan

SpecRay == InitRay /\ [][NextRay]_vars

(***************************************************************************)
(* trace, statement by statement                                           *)
(***************************************************************************)
BoundRay(m) == rays[mags[m].ray]

\* A Ray another pass of trace can be computed from inside the integer width:
\* its coordinates are whole numbers and its direction has components 0, 1
\* and -1 before normalisation, or they are NaN (kept as 0/1 and 0)
Fits(r) ==
    /\ \A i \in 1..3 : r.position.c[i].d = 1
    /\ \A i \in 1..3 : Abs(r.direction.v[i]) <= 1

\* The call of trace that returned last on system m, if any
LastCall(m) ==
    IF act[m].pc = "returned" THEN << [act[m] EXCEPT !.prev = << >>] >> ELSE << >>

\* A faulty trace that first puts the Ray back to where the call before
\* found it; C13 tells it from trace.
TraceCall_Reset(m, X, Y) ==
    /\ act[m].pc \in { "idle", "returned" }
    /\ left[m] > 0
    /\ mags[m].ray \in RayIds
    /\ Fits(BoundRay(m))
    /\ LET Begin(r) ==
               /\ rays' = [rays EXCEPT ![mags[m].ray] = r]
               /\ act' = [act EXCEPT ![m] = [pc |-> "mirror1", X |-> X, Y |-> Y,
                                             log |-> << >>, ret |-> Void, start |-> r,
                                             prev |-> LastCall(m)]]
       IN  Begin(IF act[m].pc = "returned" THEN act[m].start ELSE BoundRay(m))
    /\ left' = [left EXCEPT ![m] = @ - 1]
    /\ UNCHANGED << mags, call, hist, drv, fpu >>

\* mag.trace(X, Y) is called: nothing is done to the bound Ray before the
\* first statement
TraceCall(m, X, Y) ==
    /\ act[m].pc \in { "idle", "returned" }
    /\ left[m] > 0
    /\ mags[m].ray \in RayIds
    /\ Fits(BoundRay(m))
    /\ act' = [act EXCEPT ![m] = [pc |-> "mirror1", X |-> X, Y |-> Y, log |-> << >>,
                                  ret |-> Void, start |-> BoundRay(m),
                                  prev |-> LastCall(m)]]
    /\ left' = [left EXCEPT ![m] = @ - 1]
    /\ UNCHANGED << rays, mags, call, hist, drv, fpu >>

\* The statement at pc runs: it mutates the bound Ray in place
Advance(m, pc) ==
    /\ LET Ran(s) ==
               /\ rays' = [rays EXCEPT ![mags[m].ray] = s.ray]
               /\ act' = [act EXCEPT ![m].pc = s.pc, ![m].log = @ \o s.log, ![m].ret = s.ret]
       IN  Ran(TraceStep(pc, BoundRay(m), mags[m], act[m].X, act[m].Y))
    /\ UNCHANGED << mags, left, call, hist, drv, fpu >>

TraceMirror1(m) ==
    /\ act[m].pc = "mirror1"
    /\ Advance(m, "mirror1")

TraceMirror2(m) ==
    /\ act[m].pc = "mirror2"
    /\ Advance(m, "mirror2")

TraceScan(m) ==
    /\ act[m].pc = "scan"
    /\ Advance(m, "scan")

TraceLens(m) ==
    /\ act[m].pc = "lens"
    /\ Advance(m, "lens")

TraceFocal(m) ==
    /\ act[m].pc = "focal"
    /\ Advance(m, "focal")

TraceStatements ==
    \E m \in MagIds :
        \/ TraceMirror1(m)
        \/ TraceMirror2(m)
        \/ TraceScan(m)
        \/ TraceLens(m)
        \/ TraceFocal(m)

\* One Ray, one system bound to it, trace called on the pair again and again
InitTrace ==
    /\ \E r \in TraceRays, f \in Focuses, g \in Gaps :
          /\ rays = [id \in RayIds |->
                        IF id = "rayA" THEN RayNew(PtI(r.position), Vec(r.direction)) ELSE NoRay]
          /\ mags = [m \in MagIds |->
                        IF m = "magA" THEN set_ray(MagNew(f, g), "rayA") ELSE MagNew(f, g)]
    /\ act = [m \in MagIds |-> Idle]
    /\ left = [m \in MagIds |-> IF m = "magA" THEN MaxTraces ELSE 0]
    /\ call = NoCall
    /\ hist = NoHist
    /\ drv = NoDrv
    /\ fpu \in Roundings

NextTrace ==
    \/ \E m \in MagIds, X \in TraceAngles, Y \in TraceAngles : TraceCall(m, X, Y)
    \/ TraceStatements

Spec == InitTrace /\ [][NextTrace]_vars

(***************************************************************************)
(* Samples traced side by side: each constructs its own Ray and system     *)
(* (Test_Mechnical.py, the body of the sweep), their statements interleave *)
(***************************************************************************)
NewSample(m, r, f, g, X, Y) ==
    /\ act[m].pc = "idle"
    /\ left[m] > 0
    /\ LET Built(ray, mag) ==
               /\ rays' = [rays EXCEPT ![RayFor(m)] = ray]
               /\ mags' = [mags EXCEPT ![m] = mag]
               /\ act' = [act EXCEPT ![m] = [pc |-> "mirror1", X |-> X, Y |-> Y,
                                             log |-> << >>, ret |-> Void, start |-> ray,
                                             prev |-> << >>]]
       IN  Built(RayNew(PtI(r.position), Vec(r.direction)),
                 set_ray(MagNew(f, g), RayFor(m)))
    /\ left' = [left EXCEPT ![m] = @ - 1]
    /\ UNCHANGED << call, hist, drv, fpu >>

InitPar ==
    /\ rays = [id \in RayIds |-> NoRay]
    /\ mags = [m \in MagIds |-> MagNew(QI(0), QI(0))]
    /\ act = [m \in MagIds |-> Idle]
    /\ left = [m \in MagIds |-> 1]
    /\ call = NoCall
    /\ hist = NoHist
    /\ drv = NoDrv
    /\ fpu \in Roundings

NextPar ==
    \/ \E m \in MagIds, r \in ParRays, g \in Gaps, X \in ParAngles, Y \in ParAngles :
          NewSample(m, r, focus_distance, g, X, Y)
    \/ TraceStatements

SpecPar == InitPar /\ [][NextPar]_vars

(***************************************************************************)
(* The batch driver test(num)                                              *)
(***************************************************************************)
\* for i in valuex: for j in valuey: a new Ray, a new system, mag.trace(i, j)
DrvSample ==
    /\ drv.pc = "loop"
    /\ drv.i < drv.num
    /\ LET Built(ray, mag) ==
               /\ rays' = [rays EXCEPT !["rayA"] = ray]
               /\ mags' = [mags EXCEPT !["magA"] = mag]
               /\ act' = [act EXCEPT !["magA"] =
                             [pc |-> "mirror1", X |-> LinSpace(drv.num, drv.i),
                              Y |-> LinSpace(drv.num, drv.j), log |-> << >>,
                              ret |-> Void, start |-> ray, prev |-> << >>]]
       IN  Built(RayNew(initial_position, initial_direction),
                 set_ray(MagNew(focus_distance, galvo_gap), "rayA"))
    /\ drv' = [drv EXCEPT !.pc = "tracing"]
    /\ UNCHANGED << left, call, hist, fpu >>

\* intersection_point_list.append(intersection_point), and the loops step
DrvAppend ==
    /\ drv.pc = "tracing"
    /\ act["magA"].pc = "returned"
    /\ drv' = [drv EXCEPT !.pc = "loop",
                          !.list = Append(@, act["magA"].ret),
                          !.j = IF drv.j + 1 < drv.num THEN drv.j + 1 ELSE 0,
                          !.i = IF drv.j + 1 < drv.num THEN drv.i ELSE drv.i + 1]
    /\ act' = [act EXCEPT !["magA"] = Idle]
    /\ UNCHANGED << rays, mags, left, call, hist, fpu >>

\* realresult = [point - A for point in intersection_point_list]:
\* None - A raises TypeError, which nothing catches
DrvSubtract ==
    /\ drv.pc = "loop"
    /\ drv.i >= drv.num
    /\ drv' = IF \E k \in DOMAIN drv.list : drv.list[k].kind = "None"
              THEN [drv EXCEPT !.pc = "TypeError"]
              ELSE [drv EXCEPT !.pc = "open",
                               !.realresult = [k \in DOMAIN drv.list |->
                                                  PointMinus(drv.list[k].p, RefPoint)]]
    /\ UNCHANGED << rays, mags, act, left, call, hist, fpu >>

\* writer.writerow(['X', 'Y', 'Z'])
DrvHeader ==
    /\ drv.pc = "open"
    /\ drv' = [drv EXCEPT !.pc = "rows", !.file = << Header >>]
    /\ UNCHANGED << rays, mags, act, left, call, hist, fpu >>

\* for point in realresult: writer.writerow(point)
DrvRow ==
    /\ drv.pc = "rows"
    /\ Len(drv.file) - 1 < Len(drv.realresult)
    /\ drv' = [drv EXCEPT !.file = Append(@, drv.realresult[Len(drv.file)])]
    /\ UNCHANGED << rays, mags, act, left, call, hist, fpu >>

\* the file is closed, the message printed, the points plotted
DrvPlot ==
    /\ drv.pc = "rows"
    /\ Len(drv.file) - 1 = Len(drv.realresult)
    /\ drv' = [drv EXCEPT !.pc = "done"]
    /\ UNCHANGED << rays, mags, act, left, call, hist, fpu >>

InitBatch ==
    /\ \E num \in 0..MaxNum : drv = [NoDrv EXCEPT !.pc = "loop", !.num = num]
    /\ rays = [id \in RayIds |->
                  IF id = "rayA" THEN RayNew(initial_position, initial_direction) ELSE NoRay]
    /\ mags = [m \in MagIds |->
                  IF m = "magA" THEN set_ray(MagNew(focus_distance, galvo_gap), "rayA")
                  ELSE MagNew(QI(0), QI(0))]
    /\ act = [m \in MagIds |-> Idle]
    /\ left = [m \in MagIds |-> 0]
    /\ call = NoCall
    /\ hist = NoHist
    /\ fpu \in Roundings

NextBatch ==
    \/ DrvSample
    \/ TraceStatements
    \/ DrvAppend
    \/ DrvSubtract
    \/ DrvHeader
    \/ DrvRow
    \/ DrvPlot

SpecBatch == InitBatch /\ [][NextBatch]_vars

(***************************************************************************)
(* Properties                                                              *)
(***************************************************************************)
\* The stage of trace the k-th primitive call belongs to: 1 and 2 the fixed
\* mirrors, 3 and 4 the scan mirrors, 5 the field lens, 6 the focal plane.
StageOf(k) == (k + 1) \div 2

\* The intersection of entry e failed
Failed(e) == e.op = "interaction" /\ e.ret = None

\* C1: when the plane intersection of a stage of trace fails, no later stage
\* is executed (the Ray is as the failed stage left it in every later entry of
\* the log) and trace returns None.
C1_ShortCircuit ==
    \A m \in MagIds : \A i \in DOMAIN act[m].log :
        Failed(act[m].log[i]) =>
            /\ \A j \in DOMAIN act[m].log :
                  StageOf(j) > StageOf(i) => act[m].log[j].after = act[m].log[j - 1].after
            /\ act[m].pc = "returned" => act[m].ret = None

\* The operations of one trace, in order
TraceOps ==
    << "interaction", "reflection", "interaction", "reflection",
       "interaction", "reflection", "interaction", "reflection",
       "interaction", "refraction", "interaction" >>

\* The plane (normal, point) of each stage for system m
StagePlane(m, st) ==
    CASE st = 1 -> [n |-> Vec(<< 0, 1, -1 >>), P |-> PtI(<< 0, 20, 0 >>)]
      [] st = 2 -> [n |-> Vec(<< 0, 1, -1 >>), P |-> PtI(<< 0, 20, 200 >>)]
      [] st = 3 -> [n |-> rotate_vector_around_axis(Vec(<< -1, 1, 0 >>), Vec(<< 0, 0, 1 >>),
                                                    CosSin(act[m].X)),
                    P |-> PtI(<< 0, 180, 200 >>)]
      [] st = 4 -> [n |-> rotate_vector_around_axis(Vec(<< 1, 0, 1 >>), Vec(<< 0, 1, 0 >>),
                                                    CosSin(act[m].Y)),
                    P |-> Pt(mags[m].galvo_gap, QI(180), QI(200))]
      [] st = 5 -> [n |-> Vec(<< 0, 0, 1 >>), P |-> Pt(mags[m].galvo_gap, QI(180), QI(170))]
      [] st = 6 -> [n |-> Vec(<< 0, 0, 1 >>),
                    P |-> Pt(mags[m].galvo_gap, QI(180),
                             QSub(QI(170), mags[m].focus_distance))]

\* C2: trace performs intersect/reflect at fixed mirror 1, fixed mirror 2, scan
\* mirror A and scan mirror B, intersect/refract with k = -1 at the field lens
\* and the focal-plane intersection, in this order and each once, on the
\* planes of the prescription; it returns what the last intersection returned.
C2_FixedOrder ==
    \A m \in MagIds :
        /\ Len(act[m].log) <= Len(TraceOps)
        /\ \A i \in DOMAIN act[m].log :
              /\ act[m].log[i].op = TraceOps[i]
              /\ act[m].log[i].n = StagePlane(m, StageOf(i)).n
              /\ act[m].log[i].op = "interaction" =>
                    act[m].log[i].P = StagePlane(m, StageOf(i)).P
              /\ act[m].log[i].op = "refraction" => act[m].log[i].k = -1
        /\ act[m].pc = "returned" =>
              /\ Len(act[m].log) = Len(TraceOps)
              /\ act[m].ret = act[m].log[Len(TraceOps)].ret

\* A trace that returned a point of the focal plane after all eleven calls
C2_Witness ==
    \E m \in MagIds :
        /\ act[m].pc = "returned"
        /\ Len(act[m].log) = 11
        /\ act[m].ret.kind = "point"
        /\ ~act[m].ret.p.nan
        /\ act[m].ret.p.c[3] = QSub(QI(170), mags[m].focus_distance)

\* The last call was interaction(n, P) on a Ray and with arguments all of
\* whose numbers are defined
DefinedInteraction ==
    /\ call.op = "interaction"
    /\ ~call.before.direction.nan
    /\ ~call.before.position.nan
    /\ call.arg.n.v # Zero3

\* direction . n up to a positive factor, for the arguments of the last call
CallDenom == Dot3(call.before.direction.v, call.arg.n.v)

\* The sign of (P - position) . n, for the arguments of the last call
CallOffset == QSgn(QDot(PtSub(call.arg.P, call.before.position), call.arg.n.v))

\* |direction . n| < 1e-10: the comparison does not read the position
CallParallel ==
    /\ call.op = "interaction"
    /\ ~call.before.direction.nan
    /\ call.arg.n.v # Zero3
    /\ CallDenom = 0

\* t < 0
CallBehind == DefinedInteraction /\ CallDenom # 0 /\ CallOffset * Sgn(CallDenom) < 0

\* C3: interaction returns None exactly when |direction . n| < 1e-10 or
\* t < 0; then position and direction are left as they were; the call raises
\* nothing, it returns None or a point.
C3_NoneExactly ==
    call.op = "interaction" =>
        /\ call.ret = None <=> (CallParallel \/ CallBehind)
        /\ call.ret = None => Subject = call.before
        /\ call.ret.kind \in { "None", "point" }

\* interaction returned None for a plane behind the origin of the Ray
C3_Witness ==
    /\ call.op = "interaction"
    /\ CallBehind
    /\ call.ret = None
    /\ Subject = call.before

\* The point p lies on the plane of the last call: (p - P) . n = 0
OnCallPlane(p) == ~p.nan /\ QSgn(QDot(PtSub(p, call.arg.P), call.arg.n.v)) = 0

\* The point p lies on the Ray of the last call, at some t >= 0
OnCallRay(p) ==
    /\ ~p.nan
    /\ LET Along(e, u) ==
               /\ QSub(QMul(e[2], QI(u[3])), QMul(e[3], QI(u[2]))).n = 0
               /\ QSub(QMul(e[3], QI(u[1])), QMul(e[1], QI(u[3]))).n = 0
               /\ QSub(QMul(e[1], QI(u[2])), QMul(e[2], QI(u[1]))).n = 0
               /\ QSgn(QDot(e, u)) >= 0
       IN  Along(PtSub(p, call.before.position), call.before.direction.v)

\* interaction returned the point where the Ray meets the plane and committed
\* it: the position is that point, the direction is as it was
CallCommitted ==
    /\ call.ret.kind = "point"
    /\ OnCallPlane(call.ret.p)
    /\ OnCallRay(call.ret.p)
    /\ Subject.position = call.ret.p
    /\ Subject.direction = call.before.direction

\* C4 (as stated): a Ray that meets the plane at Q gets Q returned and
\* committed; a Ray directed away from the plane or parallel to it, or one
\* whose origin already lies on the plane, gets None.
C4_AsStated ==
    DefinedInteraction =>
        /\ (CallDenom # 0 /\ CallOffset * Sgn(CallDenom) > 0) => CallCommitted
        /\ (CallParallel \/ CallBehind \/ CallOffset = 0) => call.ret = None

\* C4 (amended): a Ray that meets the plane at Q with t >= 0 gets Q returned
\* and committed, and this includes a Ray whose origin already lies on the
\* plane (t = 0, Q the origin); a Ray parallel to the plane or with the plane
\* behind it (t < 0) gets None.
C4_HitOrNone ==
    DefinedInteraction =>
        /\ (CallDenom # 0 /\ CallOffset * Sgn(CallDenom) >= 0) => CallCommitted
        /\ (CallParallel \/ CallBehind) => call.ret = None

\* interaction was called from an origin on the plane, not parallel to it, and
\* returned that origin
C4_Witness ==
    /\ DefinedInteraction
    /\ CallDenom # 0
    /\ CallOffset = 0
    /\ call.ret = Some(call.before.position)
    /\ Subject = call.before

\* C5: a call given a zero-length vector fails at once; no Ray is left with a
\* NaN direction or position by such a call.
C5_FailFast ==
    call.zero => ~Subject.direction.nan /\ ~Subject.position.nan

\* The last call was refraction(k, n), n not zero, on a Ray with a defined
\* direction along or against n
DegenerateRefraction ==
    /\ call.op = "refraction"
    /\ ~call.before.direction.nan
    /\ call.arg.n.v # Zero3
    /\ Cross3(call.before.direction.v, call.arg.n.v) = Zero3

\* C6: refraction of a Ray along or against the normal leaves the Ray with
\* the unit direction -n.
C6_Guarded ==
    DegenerateRefraction =>
        /\ IsUnit(Subject.direction)
        /\ Subject.direction = Normalize(Vec(Scale3(-1, call.arg.n.v)))

\* C7: a Ray constructed with a non-zero direction and only ever given
\* non-zero normals and axes has a direction of unit length.
C7_UnitDirection == ~hist.zero => IsUnit(Subject.direction)

\* The direction is of unit length after every call but a refraction along
\* the normal
C7_UnitButDegenerate ==
    (~hist.zero /\ ~Subject.direction.nan) => IsUnit(Subject.direction)

\* The inputs of the sample that system m traces
SampleInputs(m) ==
    << act[m].X, act[m].Y, mags[m].focus_distance, mags[m].galvo_gap, act[m].start >>

\* C8: the value a sample's trace returns is the value of trace on the
\* sample's own inputs, whatever the other sample's statements did in between;
\* samples with equal inputs return equal values.
C8_Deterministic ==
    /\ \A m \in MagIds :
          act[m].pc = "returned" =>
              act[m].ret = trace(act[m].start, mags[m], act[m].X, act[m].Y).ret
    /\ \A m1, m2 \in MagIds :
          (/\ act[m1].pc = "returned"
           /\ act[m2].pc = "returned"
           /\ SampleInputs(m1) = SampleInputs(m2)) => act[m1].ret = act[m2].ret

\* Two samples with equal inputs, traced side by side, both returned a point
C8_Witness ==
    /\ act["magA"].pc = "returned"
    /\ act["magB"].pc = "returned"
    /\ SampleInputs("magA") = SampleInputs("magB")
    /\ act["magA"].ret.kind = "point"
    /\ ~act["magA"].ret.p.nan
    /\ rays["rayA"] = rays["rayB"]

\* The angle pair of the k-th sample of the sweep, k = 1 .. num * num
SweepPair(num, k) ==
    << LinSpace(num, (k - 1) \div num), LinSpace(num, (k - 1) % num) >>

\* The row written for the point p: p - [galvo_gap, 180, 5], by coordinate
RowOf(p) ==
    IF p.nan THEN NaNPt
    ELSE Pt(QSub(p.c[1], Q(261, 20)), QSub(p.c[2], QI(180)), QSub(p.c[3], QI(5)))

ScanCall == call.arg.sc[1]

\* The normals of the two mirrors, rotated
ScanR1 == rotate_vector_around_axis(Vec(ScanCall.nx), Vec(ScanCall.rx), CosSin(ScanCall.xa))

ScanR2 == rotate_vector_around_axis(Vec(ScanCall.ny), Vec(ScanCall.ry), CosSin(ScanCall.ya))

\* interaction(R1, p1); reflection(R1); interaction(R2, p2); reflection(R2)
\* applied to the Ray r
Sequence(r) ==
    reflection(
        interaction(
            reflection(interaction(r, ScanR1, PtI(ScanCall.Px1)).ray, ScanR1),
            ScanR2, PtI(ScanCall.Px2)).ray,
        ScanR2)

\* C10: scan leaves the Ray as the sequence interaction, reflection,
\* interaction, reflection with the rotated normals leaves it, from every
\* starting Ray, also when the first or the second intersection fails.
C10_ScanIsSequence ==
    call.op = "scan" => Subject = Sequence(call.before)

\* A scan whose first intersection failed and which still turned the Ray
C10_Witness ==
    /\ call.op = "scan"
    /\ ~call.zero
    /\ ~call.before.direction.nan
    /\ interaction(call.before, ScanR1, PtI(ScanCall.Px1)).ret = None
    /\ ~Subject.direction.nan
    /\ Subject.direction # call.before.direction

\* The last two calls were reflection(n), with one and the same non-zero n
ReflectedTwice ==
    /\ call.op = "reflection"
    /\ hist.prev.op = "reflection"
    /\ call.arg.n = hist.prev.arg.n
    /\ call.arg.n.v # Zero3

\* C11: reflection is an involution: reflection(n) called twice in a row with
\* a non-zero n leaves the Ray with the direction it had before the first
\* call, and with the position it had.
C11_Involution ==
    ReflectedTwice =>
        /\ Subject.direction = hist.prev.before.direction
        /\ Subject.position = hist.prev.before.position

\* Two reflections off a normal that is not of unit length: the first turned
\* a defined direction, the second turned it back
C11_Witness ==
    /\ ReflectedTwice
    /\ Dot3(call.arg.n.v, call.arg.n.v) > 1
    /\ ~hist.prev.before.direction.nan
    /\ call.before.direction # hist.prev.before.direction
    /\ Subject.direction = hist.prev.before.direction

\* C12: each primitive changes only the field its contract names:
\* point_at_parameter neither field; move the position (by a step that is not
\* zero when L is not) and not the direction; reflection and refraction the
\* direction and not the position; interaction never the direction.  The
\* array the caller passed as position is as the caller passed it, whatever
\* was called since: the Ray works on a copy.
C12_FrameEffects ==
    /\ call.op = "point_at_parameter" => Subject = call.before
    /\ call.op = "move" =>
          /\ Subject.direction = call.before.direction
          /\ (~call.before.direction.nan /\ ~call.before.position.nan /\ call.arg.L.n # 0)
                => Subject.position # call.before.position
    /\ call.op \in { "reflection", "refraction" } => Subject.position = call.before.position
    /\ call.op = "interaction" => Subject.direction = call.before.direction
    /\ hist.given = hist.ctor

\* move took the Ray away from where it was constructed, and the caller's
\* array still holds the position it passed
C12_Witness ==
    /\ call.op = "move"
    /\ ~Subject.position.nan
    /\ Subject.position # call.before.position
    /\ Subject.position # hist.ctor
    /\ Subject.direction = call.before.direction
    /\ hist.given = hist.ctor

\* The values a and b returned are one and the same point, as arrays of
\* doubles compare: a NaN equals nothing, None is no point
SamePoint(a, b) ==
    /\ a.kind = "point"
    /\ b.kind = "point"
    /\ ~a.p.nan
    /\ ~b.p.nan
    /\ a.p = b.p

\* The Ray as the trace recorded in t left it: the Ray after its last call
LeftBy(t) == t.log[Len(t.log)].after

\* The reference setup: the Ray at the origin along (0,1,0), trace(0, 0)
Reference(t) ==
    /\ t.start = RayNew(PtI(<< 0, 0, 0 >>), Vec(<< 0, 1, 0 >>))
    /\ t.X = 0
    /\ t.Y = 0

\* C13: trace never resets the bound Ray: a call of trace on a system that
\* has returned from one before finds the Ray as that call left it, at the
\* point it returned when it returned one; and the second trace(0, 0) of the
\* reference setup does not return the point the first returned.
C13_NoReset ==
    \A m \in MagIds :
        act[m].prev # << >> =>
            /\ act[m].start = LeftBy(act[m].prev[1])
            /\ act[m].prev[1].ret.kind = "point" =>
                  act[m].start.position = act[m].prev[1].ret.p
            /\ (/\ act[m].pc = "returned"
                /\ Reference(act[m].prev[1])
                /\ act[m].X = 0
                /\ act[m].Y = 0) => ~SamePoint(act[m].ret, act[m].prev[1].ret)

\* The reference setup traced twice with angles (0, 0): the first call
\* returned the reference point, the second started there and returned a
\* point that is not the reference point
C13_Witness ==
    /\ act["magA"].pc = "returned"
    /\ act["magA"].prev # << >>
    /\ Reference(act["magA"].prev[1])
    /\ act["magA"].X = 0
    /\ act["magA"].Y = 0
    /\ act["magA"].prev[1].ret = Some(PFocal(mags["magA"]))
    /\ act["magA"].start.position = PFocal(mags["magA"])
    /\ act["magA"].ret.kind = "point"
    /\ ~act["magA"].ret.p.nan
    /\ act["magA"].ret.p # PFocal(mags["magA"])

\* The points the unsteered Ray meets on the two fixed mirrors, the two scan
\* mirrors and the field lens of system m
ReferenceVisits(m) ==
    << PtI(<< 0, 20, 0 >>), PtI(<< 0, 20, 200 >>), PtI(<< 0, 180, 200 >>),
       Pt(mags[m].galvo_gap, QI(180), QI(200)), Pt(mags[m].galvo_gap, QI(180), QI(170)) >>

\* The reference trace on system m, as far as it has run, met every plane, the
\* first five at the points of ReferenceVisits, and reached the lens along
\* (0,0,-1)
ReferencePath(m) ==
    /\ \A i \in DOMAIN act[m].log :
          act[m].log[i].op = "interaction" =>
              /\ act[m].log[i].ret.kind = "point"
              /\ StageOf(i) <= 5 => act[m].log[i].ret = Some(ReferenceVisits(m)[StageOf(i)])
              /\ act[m].log[i].after.position = act[m].log[i].ret.p
    /\ Len(act[m].log) >= 9 =>
          /\ act[m].log[9].after.direction = Vec(<< 0, 0, -1 >>)
          /\ Cross3(act[m].log[9].after.direction.v, << 0, 0, 1 >>) = Zero3

C14_UpToTheLens ==
    \A m \in MagIds :
        Reference(act[m]) =>
            /\ ReferencePath(m)
            /\ act[m].pc = "returned" =>
                  \/ fpu = "residue" /\ act[m].ret = Some(PFocal(mags[m]))
                  \/ fpu = "exact" /\ act[m].ret = Some(NaNPt)
====
